---------------------------- MODULE Spec2Model ----------------------------
(***************************************************************************)
(* WiVRn server, driver/clock_offset.cpp: the clock offset estimator.      *)
(*                                                                         *)
(* The server sends timesync queries to the headset (request_sample),      *)
(* stores the replies in a window of num_samples samples (add_sample),     *)
(* fits  headset = a * server + b  to the window and hands the model to    *)
(* its readers (get_offset), who convert timestamps with it (to_headset,   *)
(* from_headset).                                                          *)
(*                                                                         *)
(* The arithmetic is the program's: int64_t and uint64_t values are exact  *)
(* integers, double values are IEEE-754 binary64 with round-to-nearest,    *)
(* each operation rounded on its own (no fused multiply-add, as on the     *)
(* x86-64 baseline the server is built for).                               *)
(***************************************************************************)
EXTENDS Integers, Sequences, FiniteSets, TLC

(***************************************************************************)
(* Arbitrary-precision naturals.  TLC's integers are 32 bits wide, while   *)
(* the estimator computes with int64_t, uint64_t and double (53-bit        *)
(* significand).  A natural is a little-endian sequence of limbs in        *)
(* 0..Base-1 without high zero limbs; zero is the empty sequence.          *)
(***************************************************************************)
LimbBits == 15
Base == 2 ^ LimbBits

Max(a, b) == IF a >= b THEN a ELSE b
Min(a, b) == IF a <= b THEN a ELSE b

RECURSIVE BTrim(_)
BTrim(s) ==
  IF s = <<>> THEN s
  ELSE IF s[Len(s)] = 0 THEN BTrim(SubSeq(s, 1, Len(s) - 1)) ELSE s

BLimb(s, i) == IF 1 <= i /\ i <= Len(s) THEN s[i] ELSE 0

RECURSIVE BOfNat(_)
BOfNat(n) == IF n = 0 THEN <<>> ELSE <<n % Base>> \o BOfNat(n \div Base)

RECURSIVE BToNat(_, _)
BToNat(a, i) == IF i > Len(a) THEN 0 ELSE a[i] + Base * BToNat(a, i + 1)

\* a + b + c from limb i on, t the sum at limb i
RECURSIVE BAddC(_, _, _, _)
BAddLimb(a, b, i, t) == <<t % Base>> \o BAddC(a, b, i + 1, t \div Base)

BAddC(a, b, i, c) ==
  IF i > Len(a) /\ i > Len(b) THEN (IF c = 0 THEN <<>> ELSE <<c>>)
  ELSE BAddLimb(a, b, i, BLimb(a, i) + BLimb(b, i) + c)

BAdd(a, b) == BAddC(a, b, 1, 0)

\* a - b - c from limb i on, t the difference at limb i
RECURSIVE BSubC(_, _, _, _)
BSubLimb(a, b, i, t) ==
  <<IF t < 0 THEN t + Base ELSE t>> \o BSubC(a, b, i + 1, IF t < 0 THEN 1 ELSE 0)

BSubC(a, b, i, c) ==
  IF i > Len(a) THEN <<>> ELSE BSubLimb(a, b, i, a[i] - BLimb(b, i) - c)

\* a - b for a >= b
BSub(a, b) == BTrim(BSubC(a, b, 1, 0))

RECURSIVE BCmpAt(_, _, _)
BCmpAt(a, b, i) ==
  IF i = 0 THEN 0
  ELSE IF a[i] > b[i] THEN 1
  ELSE IF a[i] < b[i] THEN -1
  ELSE BCmpAt(a, b, i - 1)

\* -1, 0, 1 as a < b, a = b, a > b
BCmp(a, b) ==
  IF Len(a) > Len(b) THEN 1
  ELSE IF Len(a) < Len(b) THEN -1
  ELSE BCmpAt(a, b, Len(a))

\* a * k + c from limb i on, t the product at limb i
RECURSIVE BMulSmallC(_, _, _, _)
BMulLimb(a, k, i, t) == <<t % Base>> \o BMulSmallC(a, k, i + 1, t \div Base)

BMulSmallC(a, k, i, c) ==
  IF i > Len(a) THEN (IF c = 0 THEN <<>> ELSE <<c>>)
  ELSE BMulLimb(a, k, i, a[i] * k + c)

\* a * k for 0 <= k < Base
BMulSmall(a, k) == IF k = 0 THEN <<>> ELSE BMulSmallC(a, k, 1, 0)

BShlLimbs(a, n) == IF a = <<>> THEN a ELSE [i \in 1..n |-> 0] \o a

RECURSIVE BMulAt(_, _, _)
BMulAt(a, b, j) ==
  IF j > Len(b) THEN <<>>
  ELSE BAdd(BShlLimbs(BMulSmall(a, b[j]), j - 1), BMulAt(a, b, j + 1))

BMul(a, b) == BMulAt(a, b, 1)

\* the number of bits of a limb n
BitLenSmall(n) == CHOOSE k \in 0..LimbBits : n < 2 ^ k /\ (k = 0 \/ 2 ^ (k - 1) <= n)

BBitLen(a) ==
  IF a = <<>> THEN 0 ELSE LimbBits * (Len(a) - 1) + BitLenSmall(a[Len(a)])

\* a * 2^k
BShl(a, k) == BShlLimbs(BMulSmall(a, 2 ^ (k % LimbBits)), k \div LimbBits)

\* a \div 2^(LimbBits * n + k) for 0 <= k < LimbBits
BShrBy(a, n, k) ==
  BTrim([i \in 1..(Len(a) - n) |->
           a[i + n] \div 2 ^ k
           + (BLimb(a, i + n + 1) % 2 ^ k) * 2 ^ (LimbBits - k)])

\* a \div 2^k
BShr(a, k) ==
  IF k \div LimbBits >= Len(a) THEN <<>>
  ELSE BShrBy(a, k \div LimbBits, k % LimbBits)

\* bit i of a (bit 0 is the lowest)
BBit(a, i) == (BLimb(a, i \div LimbBits + 1) \div 2 ^ (i % LimbBits)) % 2

\* the largest q in lo..hi with b * q <= r
RECURSIVE BQDigit(_, _, _, _)
BQDigit(r, b, lo, hi) ==
  IF lo = hi THEN lo
  ELSE IF BCmp(BMulSmall(b, (lo + hi + 1) \div 2), r) <= 0
       THEN BQDigit(r, b, (lo + hi + 1) \div 2, hi)
       ELSE BQDigit(r, b, lo, (lo + hi + 1) \div 2 - 1)

\* the limbs of r from the top limb of b up, for r < b * Base
BQTop(r, b) == BLimb(r, Len(b) + 1) * Base + BLimb(r, Len(b))

\* r \div b lies between these two, as b[Len(b)] <= b / Base^(Len(b) - 1)
\* < b[Len(b)] + 1
BQLow(r, b) == BQTop(r, b) \div (b[Len(b)] + 1)
BQHigh(r, b) == Min(Base - 1, BQTop(r, b) \div b[Len(b)])

\* <<<<r1 \div b>>, r1 % b>> for r1 < b * Base
BDivDigit(b, r1, q) == <<<<q>>, BSub(r1, BMulSmall(b, q))>>
BDivLimb(b, r1) == BDivDigit(b, r1, BQDigit(r1, b, BQLow(r1, b), BQHigh(r1, b)))

\* long division of the limbs a[lo..hi] below the remainder r < b of the
\* limbs above them, the upper half first: <<quotient limbs, remainder>>
RECURSIVE BDivAt(_, _, _, _, _)
BDivLower(a, b, lo, mid, h) ==
  IF h = h
  THEN LET l == BDivAt(a, b, lo, mid, h[2]) IN <<l[1] \o h[1], l[2]>>
  ELSE <<>>

BDivAt(a, b, lo, hi, r) ==
  IF lo = hi THEN BDivLimb(b, BTrim(<<a[lo]>> \o r))
  ELSE BDivLower(a, b, lo, (lo + hi) \div 2,
                 BDivAt(a, b, (lo + hi) \div 2 + 1, hi, r))

\* the shift that brings the top limb of b to Base / 2 or more
BDivShift(b) == LimbBits - BitLenSmall(b[Len(b)])

\* a * 2^k and b * 2^k have the quotient of a and b, and 2^k times their remainder
BDivShifted(a, b) ==
  IF a = a /\ b = b THEN BDivAt(a, b, 1, Len(a), <<>>) ELSE <<>>
BDivBy(a, b, k) ==
  LET qr == BDivShifted(BShl(a, k), BShl(b, k)) IN <<qr[1], BShr(qr[2], k)>>

\* <<a \div b, a % b>> for b # 0
BDivMod(a, b) == IF a = <<>> THEN <<<<>>, <<>>>> ELSE BDivBy(a, b, BDivShift(b))
BDiv(a, b) == BTrim(BDivMod(a, b)[1])

\* a % 2^k # 0
BLowBits(a, k) ==
  \/ \E i \in 1..Min(Len(a), k \div LimbBits) : a[i] # 0
  \/ BLimb(a, k \div LimbBits + 1) % 2 ^ (k % LimbBits) # 0

\* the position of the lowest set bit of a limb n # 0
TrailingZerosSmall(n) == CHOOSE k \in 0..(LimbBits - 1) : n % 2 ^ (k + 1) = 2 ^ k

\* the number of zero limbs of a from limb i up to its first non-zero limb
BZeroLimbs(a, i) ==
  CHOOSE z \in 0..(Len(a) - i) : a[i + z] # 0 /\ \A j \in i..(i + z - 1) : a[j] = 0

\* number of trailing zero bits of a # 0
BTrailingFrom(a, z) == LimbBits * z + TrailingZerosSmall(a[z + 1])
BTrailingZeros(a) == BTrailingFrom(a, BZeroLimbs(a, 1))

(***************************************************************************)
(* Signed integers of arbitrary size: sign and magnitude, zero not         *)
(* negative.  They carry the values of int64_t and uint64_t expressions.   *)
(***************************************************************************)
ZMake(neg, mag) == [neg |-> neg /\ mag # <<>>, mag |-> mag]
ZOf(n) == ZMake(n < 0, BOfNat(IF n < 0 THEN -n ELSE n))
ZNeg(x) == ZMake(~x.neg, x.mag)

ZAdd(x, y) ==
  IF x.neg = y.neg THEN ZMake(x.neg, BAdd(x.mag, y.mag))
  ELSE IF BCmp(x.mag, y.mag) >= 0 THEN ZMake(x.neg, BSub(x.mag, y.mag))
  ELSE ZMake(y.neg, BSub(y.mag, x.mag))

ZSub(x, y) == ZAdd(x, ZNeg(y))
ZMul(x, y) == ZMake(x.neg # y.neg, BMul(x.mag, y.mag))

\* -1, 0, 1 as x < y, x = y, x > y
ZCmp(x, y) ==
  IF x.neg # y.neg THEN (IF x.neg THEN -1 ELSE 1)
  ELSE IF x.neg THEN BCmp(y.mag, x.mag) ELSE BCmp(x.mag, y.mag)

ZLess(x, y) == ZCmp(x, y) < 0
ZLeq(x, y) == ZCmp(x, y) <= 0

\* the value as a TLC integer, for magnitudes below 2^31
ZToInt(x) == IF x.neg THEN -BToNat(x.mag, 1) ELSE BToNat(x.mag, 1)

Two63 == <<0, 0, 0, 0, 8>>
Two64 == <<0, 0, 0, 0, 16>>
INT64_MIN == ZMake(TRUE, Two63)
INT64_MAX == ZMake(FALSE, BSub(Two63, <<1>>))
InInt64(x) == ZLeq(INT64_MIN, x) /\ ZLeq(x, INT64_MAX)

\* conversion int64_t -> uint64_t and back (two's complement)
ToUint64(x) == IF x.neg THEN BSub(Two64, x.mag) ELSE x.mag
FromUint64(u) ==
  IF BCmp(u, Two63) >= 0 THEN ZMake(TRUE, BSub(Two64, u)) ELSE ZMake(FALSE, u)

(***************************************************************************)
(* IEEE-754 binary64 ("double"), round to nearest, ties to even.  A finite *)
(* double is s * m * 2^e with m odd (or zero, whose sign is kept); the      *)
(* other values are the two infinities and NaN.                            *)
(***************************************************************************)
MantBits == 53
MinExp == -1074
MaxExp == 1024

DZero(s) == [k |-> "fin", s |-> s, m |-> <<>>, e |-> 0]
DInf(s) == [k |-> "inf", s |-> s, m |-> <<>>, e |-> 0]
DNaN == [k |-> "nan", s |-> 1, m |-> <<>>, e |-> 0]

\* s * m * 2^e with the trailing zero bits tz of m moved to the exponent
DShift(s, m, e, tz) == [k |-> "fin", s |-> s, m |-> BShr(m, tz), e |-> e + tz]

\* the double s * m * 2^e, for m of at most MantBits bits
DFinish(s, m, e) ==
  IF m = <<>> THEN DZero(s)
  ELSE IF BBitLen(m) + e > MaxExp THEN DInf(s)
  ELSE DShift(s, m, e, BTrailingZeros(m))

\* m \div 2^k rounded to nearest, ties to even (k > 0)
RoundUp(m, k) == BBit(m, k - 1) = 1 /\ (BLowBits(m, k - 1) \/ BBit(m, k) = 1)
RoundHalfEven(m, k) == BAdd(BShr(m, k), IF RoundUp(m, k) THEN <<1>> ELSE <<>>)

\* s * m * 2^e with the low bits of m rounded away
DRoundTo(s, m, e, shift) ==
  IF shift <= 0 THEN DFinish(s, m, e)
  ELSE DFinish(s, RoundHalfEven(m, shift), e + shift)

\* the double nearest to s * m * 2^e
DRound(s, m, e) == DRoundTo(s, m, e, Max(BBitLen(m) - MantBits, MinExp - e))

DIsZero(x) == x.k = "fin" /\ x.m = <<>>
DNeg(x) == IF x.k = "nan" THEN x ELSE [x EXCEPT !.s = -x.s]

\* sx * mx + sy * my, times 2^e
DAddMag(sx, mx, sy, my, e, c) ==
  DRound(IF sx = sy \/ c > 0 THEN sx ELSE IF c < 0 THEN sy ELSE 1,
         IF sx = sy THEN BAdd(mx, my)
         ELSE IF c >= 0 THEN BSub(mx, my) ELSE BSub(my, mx),
         e)

DAligned(sx, mx, sy, my, e) == DAddMag(sx, mx, sy, my, e, BCmp(mx, my))
DAlign(x, y, e) == DAligned(x.s, BShl(x.m, x.e - e), y.s, BShl(y.m, y.e - e), e)

DAddFin(x, y) ==
  IF DIsZero(x) /\ DIsZero(y) THEN DZero(IF x.s = -1 /\ y.s = -1 THEN -1 ELSE 1)
  ELSE IF DIsZero(x) THEN y
  ELSE IF DIsZero(y) THEN x
  ELSE DAlign(x, y, Min(x.e, y.e))

DAdd(x, y) ==
  IF x.k = "nan" \/ y.k = "nan" THEN DNaN
  ELSE IF x.k = "inf" /\ y.k = "inf" THEN (IF x.s = y.s THEN x ELSE DNaN)
  ELSE IF x.k = "inf" THEN x
  ELSE IF y.k = "inf" THEN y
  ELSE DAddFin(x, y)

DSub(x, y) == DAdd(x, DNeg(y))

DMul(x, y) ==
  IF x.k = "nan" \/ y.k = "nan" THEN DNaN
  ELSE IF x.k = "inf" \/ y.k = "inf"
       THEN IF DIsZero(x) \/ DIsZero(y) THEN DNaN ELSE DInf(x.s * y.s)
  ELSE DRound(x.s * y.s, BMul(x.m, y.m), x.e + y.e)

\* the quotient x.m * 2^k / y.m as <<quotient, remainder>> qr: twice the
\* quotient, with a sticky bit for the remainder
DQuotient(s, qr, e) ==
  IF qr = qr
  THEN DRound(s, BAdd(BShl(BTrim(qr[1]), 1), IF qr[2] = <<>> THEN <<>> ELSE <<1>>), e)
  ELSE DNaN

\* quotient of two finite non-zero doubles, from k more bits of x.m
DDivBits(x, y, k) ==
  DQuotient(x.s * y.s, BDivMod(BShl(x.m, k), y.m), x.e - y.e - k - 1)

DDivFin(x, y) ==
  DDivBits(x, y, Max(0, BBitLen(y.m) + MantBits + 2 - BBitLen(x.m)))

DDiv(x, y) ==
  IF x.k = "nan" \/ y.k = "nan" THEN DNaN
  ELSE IF x.k = "inf" THEN (IF y.k = "inf" THEN DNaN ELSE DInf(x.s * y.s))
  ELSE IF y.k = "inf" THEN DZero(x.s * y.s)
  ELSE IF DIsZero(y) THEN (IF DIsZero(x) THEN DNaN ELSE DInf(x.s * y.s))
  ELSE IF DIsZero(x) THEN DZero(x.s * y.s)
  ELSE DDivFin(x, y)

\* conversion of an integer to double
DOfZ(z) == DRound(IF z.neg THEN -1 ELSE 1, z.mag, 0)
DOf(n) == DOfZ(ZOf(n))

\* the integer part of a finite double (truncation toward zero)
DTrunc(x) ==
  IF x.e >= 0 THEN ZMake(x.s = -1, BShl(x.m, x.e))
  ELSE ZMake(x.s = -1, BShr(x.m, -x.e))

\* conversion double -> int64_t.  A NaN, an infinity or a value whose
\* integer part is outside int64_t is undefined behaviour: the builds in use
\* give the "integer indefinite" value (x86-64 cvttsd2si) or saturate, with
\* NaN to zero (AArch64 fcvtzs).
Indefinite(x) ==
  IF x.k = "nan" THEN {INT64_MIN, ZOf(0)}
  ELSE {INT64_MIN, IF x.s = 1 THEN INT64_MAX ELSE INT64_MIN}

ToInt64(x) ==
  IF x.k = "fin" /\ BBitLen(x.m) + x.e <= 63 THEN {DTrunc(x)} ELSE Indefinite(x)

(***************************************************************************)
(* The estimator's computations.  A sample is a record                     *)
(* [query, response, received] of nanosecond counts.                       *)
(***************************************************************************)
num_samples == 100

DHalf == [k |-> "fin", s |-> 1, m |-> <<1>>, e |-> -1]
DOne == [k |-> "fin", s |-> 1, m |-> <<1>>, e |-> 0]

\* (s.received - s.query).count()
RoundTrip(s) == s.received - s.query

\* the loops "for (const auto & s: samples)" as left folds over ss[lo..hi],
\* split in halves to keep the evaluation shallow; the order of the
\* additions is the loop's
RECURSIVE LatencyLoop(_, _, _, _)
LatencyLoop(acc, ss, lo, hi) ==
  IF lo > hi THEN acc
  ELSE IF lo = hi THEN ZAdd(acc, ZOf(RoundTrip(ss[lo])))
  ELSE LET left == LatencyLoop(acc, ss, lo, (lo + hi) \div 2)
       IN  IF left = left THEN LatencyLoop(left, ss, (lo + hi) \div 2 + 1, hi)
           ELSE acc

\* latency /= samples.size(): int64_t divided by size_t is an unsigned division
MeanLatency(ss) ==
  FromUint64(BDiv(ToUint64(LatencyLoop(ZOf(0), ss, 1, Len(ss))), BOfNat(Len(ss))))

\* (sample.received - sample.query).count() > 3 * latency
TooHighLatency(sample, ss) ==
  ZLess(ZMul(ZOf(3), MeanLatency(ss)), ZOf(RoundTrip(sample)))

\* line 101, the variant that is compiled out
Midpoint_received(s) == DOf(s.received)

\* (s.query + s.received).count() * 0.5
Midpoint(s) == DMul(DOf(s.query + s.received), DHalf)

\* <<x0, y0>> accumulated over ss[lo..hi]
MeanStep(acc, s) == <<DAdd(acc[1], Midpoint(s)), DAdd(acc[2], DOf(s.response))>>

RECURSIVE MeanLoop(_, _, _, _)
MeanLoop(acc, ss, lo, hi) ==
  IF lo > hi THEN acc
  ELSE IF lo = hi THEN MeanStep(acc, ss[lo])
  ELSE LET left == MeanLoop(acc, ss, lo, (lo + hi) \div 2)
       IN  IF left = left THEN MeanLoop(left, ss, (lo + hi) \div 2 + 1, hi)
           ELSE acc

\* <<sum_x, sum_y, sum_x2, sum_xy>> accumulated over ss[lo..hi]
SumAcc(acc, x, y) ==
  <<DAdd(acc[1], x), DAdd(acc[2], y),
    DAdd(acc[3], DMul(x, x)), DAdd(acc[4], DMul(x, y))>>

SumStep(acc, s, x0, y0) ==
  SumAcc(acc, DSub(Midpoint(s), x0), DSub(DOf(s.response), y0))

RECURSIVE SumLoop(_, _, _, _, _, _)
SumLoop(acc, ss, x0, y0, lo, hi) ==
  IF lo > hi THEN acc
  ELSE IF lo = hi THEN SumStep(acc, ss[lo], x0, y0)
  ELSE LET left == SumLoop(acc, ss, x0, y0, lo, (lo + hi) \div 2)
       IN  IF left = left THEN SumLoop(left, ss, x0, y0, (lo + hi) \div 2 + 1, hi)
           ELSE acc

\* the model of the centred values, stored as it is
Offsets_centred(a, b, x0, y0) == {[a |-> a, b |-> bb] : bb \in ToInt64(b)}

\* lines 118-119: offset.a = a; offset.b = y0 + b - int64_t(a * x0)
Offsets(a, b, x0, y0) ==
  {[a |-> a, b |-> bb] :
     bb \in UNION {ToInt64(DSub(DAdd(y0, b), DOfZ(t))) : t \in ToInt64(DMul(a, x0))}}

\* lines 115-116: a = cov / v; b = mean_y - a * mean_x.  Each statement's
\* value is computed where the statement stands (x = x has TLC compute x),
\* not inside the first expression that uses it
Intercept(a, mean_x, mean_y, x0, y0) ==
  IF a = a THEN Offsets(a, DSub(mean_y, DMul(a, mean_x)), x0, y0) ELSE {}

Slope_inverted(cov, v, mean_x, mean_y, x0, y0) ==
  IF cov = cov /\ v = v
  THEN Intercept(DDiv(v, cov), mean_x, mean_y, x0, y0)
  ELSE {}

Slope(cov, v, mean_x, mean_y, x0, y0) ==
  IF cov = cov /\ v = v
  THEN Intercept(DDiv(cov, v), mean_x, mean_y, x0, y0)
  ELSE {}

\* lines 113-114: cov and v of the sums <<sum_x, sum_y, sum_x2, sum_xy>>
Covariance(sums, mean_x, mean_y, inv_n, x0, y0) ==
  Slope(DSub(DMul(inv_n, sums[4]), DMul(mean_x, mean_y)),
        DSub(DMul(inv_n, sums[3]), DMul(mean_x, mean_x)),
        mean_x, mean_y, x0, y0)

\* lines 110-111: mean_x = sum_x * inv_n; mean_y = sum_y * inv_n
Regression(sums, inv_n, x0, y0) ==
  IF sums = sums
  THEN Covariance(sums, DMul(sums[1], inv_n), DMul(sums[2], inv_n), inv_n, x0, y0)
  ELSE {}

\* lines 83-108: the model of the window ss with means x0 and y0
Model(ss, x0, y0) ==
  IF Len(ss) < num_samples
  THEN {[a |-> DOne, b |-> b] : b \in ToInt64(DSub(y0, x0))}
  ELSE Regression(SumLoop(<<DZero(1), DZero(1), DZero(1), DZero(1)>>,
                          ss, x0, y0, 1, Len(ss)),
                  DDiv(DOne, DOf(Len(ss))), x0, y0)

\* lines 80-81: x0 /= n; y0 /= n
Means(sums, n) == <<DDiv(sums[1], DOf(n)), DDiv(sums[2], DOf(n))>>

Centre(ss, means) == IF means = means THEN Model(ss, means[1], means[2]) ELSE {}

\* lines 71-119: the models a recomputation can store for the window ss
Recompute(ss) ==
  Centre(ss, Means(MeanLoop(<<DZero(1), DZero(1)>>, ss, 1, Len(ss)), Len(ss)))

\* int64_t arithmetic out of range wraps around (two's complement)
Wrap64(z) ==
  IF InInt64(z) THEN z
  ELSE IF z.neg THEN ZAdd(z, ZMake(FALSE, Two64))
  ELSE ZSub(z, ZMake(FALSE, Two64))

\* line 141: int64_t(a * timestamp_ns) + b, timestamp_ns a uint64_t
to_headset_unshifted(o, timestamp_ns) ==
  ToInt64(DMul(o.a, DOfZ(ZMake(FALSE, timestamp_ns))))

to_headset(o, timestamp_ns) ==
  {Wrap64(ZAdd(r, o.b)) : r \in ToInt64(DMul(o.a, DOfZ(ZMake(FALSE, timestamp_ns))))}

\* line 131: (int64_t(ts) - b) / a, ts a uint64_t
from_headset_multiplied(o, ts) ==
  ToInt64(DMul(DOfZ(Wrap64(ZSub(FromUint64(ts), o.b))), o.a))

from_headset(o, ts) ==
  ToInt64(DDiv(DOfZ(Wrap64(ZSub(FromUint64(ts), o.b))), o.a))

(***************************************************************************)
(* The callers.  Replies reach add_sample from the network threads, the    *)
(* model is read by a consumer thread, queries are requested by the        *)
(* scheduling thread.  A run first delivers the scripted replies of its    *)
(* feed one call after the other from one thread, then up to MaxFree       *)
(* further replies; the other threads act once the script is delivered.    *)
(***************************************************************************)
Adders == {"rx1", "rx2"}
Reader == "rd"
Scheduler == "sch"
NoThread == "none"

MaxFree == 2
MaxReads == 1
MaxProbes == 2
MaxTicks == 2
MaxHours == 2

Smp(q, resp, recv) == [query |-> q, response |-> resp, received |-> recv]

\* the i-th reply (from 0) of the feeds
Ramp(i) == Smp(i * 1000000, i * 1000000 + 500000, i * 1000000 + 10000)
Flat(i) == Smp(1000, 5000, 1010)
Early(i) == Smp(i * 1000 + 20, i * 1000 + 700, i * 1000)
Cold(i) == Smp(i * 1000, i * 1000 + 500, i * 1000 + 10)

\* replies on the line response = 7 * midpoint - 464293, midpoints scattered
ScatterQuery(i) == 100000 + ((i * i * 911) % 100003)
Scatter(i) == Smp(ScatterQuery(i), 7 * (ScatterQuery(i) + 5) - 464293, ScatterQuery(i) + 10)

\* round trips of 10 and 11 nanoseconds by turns: their mean is 10.5
Uneven(i) == Smp(i * 1000, i * 1000 + 500, i * 1000 + 10 + (i % 2))

Script(f, i) ==
  CASE f = "ramp" -> Ramp(i)
    [] f = "warm" -> Ramp(i)
    [] f = "full" -> Ramp(i)
    [] f = "wrap" -> Cold(i)
    [] f = "flat" -> Flat(i)
    [] f = "early" -> Early(i)
    [] f = "scatter" -> Scatter(i)
    [] f = "uneven" -> Uneven(i)
    [] f = "cold" -> Cold(i)

ScriptLen(f) ==
  CASE f = "cold" -> 0
    [] f = "conv" -> 0
    [] f = "warm" -> num_samples - 1
    [] f = "wrap" -> 2 * num_samples - 1
    [] OTHER -> num_samples

\* the number of replies delivered after the script
FreeLen(f) == IF f = "full" THEN MaxFree - 1 ELSE MaxFree

\* the reply with its round trip multiplied by k
Slow(s, k) == [s EXCEPT !.received = s.query + k * (s.received - s.query)]

\* the reply arriving a millisecond after its query
Late(s) == [s EXCEPT !.received = s.query + 1000000]

\* the replies the network can deliver as the i-th one, after the script
FreeReplies(f, i) ==
  CASE f = "cold" -> {Cold(i), Smp(i * 1000 + 3, i * 1000 + 507, i * 1000 + 40)}
    [] f = "early" -> {Early(i), Late(Early(i))}
    [] f = "uneven" -> {Smp(i * 1000, i * 1000 + 500, i * 1000 + 30),
                        Smp(i * 1000, i * 1000 + 500, i * 1000 + 31)}
    [] OTHER -> {Script(f, i), Slow(Script(f, i), 4)}

Replies(f, i) == IF i < ScriptLen(f) THEN {Script(f, i)} ELSE FreeReplies(f, i)

\* the timestamps of the operating range: up to MaxHours hours, in nanoseconds
Hour == BMul(BOfNat(3600), BOfNat(1000000000))
Nanos == {0, 1, 7, 50000000, 999999999}
Timestamps == {BAdd(BMulSmall(Hour, h), BOfNat(n)) : h \in 0..MaxHours, n \in Nanos}

\* the timestamps the consumers convert: the query and the response of the
\* reply in the middle of the script, or those of the operating range
Stamps(f) ==
  IF f = "conv" THEN Timestamps
  ELSE {BOfNat(Script(f, 50).query), BOfNat(Script(f, 50).response)}

\* the models the consumers hold: slopes 1, 1.0000001, 0.9999999, 7, 2^-10
\* and 0.284158
Slopes ==
  {DOne, DDiv(DOf(10000001), DOf(10000000)), DDiv(DOf(9999999), DOf(10000000)),
   DOf(7), [k |-> "fin", s |-> 1, m |-> <<1>>, e |-> -10],
   DDiv(DOf(284158), DOf(1000000))}
Models == {[a |-> a, b |-> ZOf(b)] : a \in Slopes, b \in {0, 495000, -464292}}

\* the steps of the steady clock between two observations, in milliseconds
TickSteps == {5, 1000}
Ticks(c) == (c \div 1000) + ((c % 1000) \div 5)
(***************************************************************************)
(* State                                                                   *)
(***************************************************************************)
VARIABLES
  samples,          \* std::vector<sample> samples
  sample_index,     \* size_t sample_index
  offset,           \* clock_offset offset: [a: double, b: int64_t]
  sample_interval,  \* std::atomic<std::chrono::milliseconds>, in milliseconds
  next_sample,      \* steady_clock::time_point, in milliseconds
  mutex,            \* the thread holding std::mutex mutex, or NoThread
  pc,               \* where each thread is in its call
  sample,           \* add_sample's local "sample" of each network thread
  pending,          \* add_sample's value for offset.b, computed and not yet stored
  ret,              \* the copy get_offset is making, then its return value
  now,              \* request_sample's reading of the clock at line 33
  conv,             \* the last conversion: its operation, argument and result
  feed, fed,        \* the feed of the run, and the number of replies delivered
  reads,            \* completed get_offset calls
  probes,           \* request_sample calls begun
  clock,            \* std::chrono::steady_clock::now(), in milliseconds
  sent,             \* timesync queries handed to connection.send_stream
  lost,             \* whether the last of them was lost, its send having failed
  gen,              \* history: recomputations begun so far
  stamp,            \* history: the recomputation that wrote offset.a and offset.b
  admitted,         \* history: the samples stored in the window, in order
  dropped           \* history: the number of samples dropped

vars == <<samples, sample_index, offset, sample_interval, next_sample, mutex,
          pc, sample, pending, ret, now, conv, feed, fed, reads, probes, clock,
          sent, lost, gen, stamp, admitted, dropped>>

estimator == <<samples, sample_index, offset>>
scheduling == <<next_sample, now, probes, clock, sent, lost>>
callers == <<ret, conv, feed, reads>>
history == <<gen, stamp, admitted, dropped>>

\* clock_offset.h: the state of a new estimator
InitialInterval == 10
InitialOffset == [a |-> DOne, b |-> ZOf(0)]
\* line 50: std::chrono::seconds(1)
OneSecond == 1000

NoSample == Smp(0, 0, 0)
NoConversion == [op |-> "none", arg |-> <<>>, res |-> ZOf(0)]

InitWith(f, o) ==
  /\ samples = <<>>
  /\ sample_index = 0
  /\ offset = o
  /\ sample_interval = InitialInterval
  /\ next_sample = 0
  /\ mutex = NoThread
  /\ pc = [t \in Adders \cup {Reader, Scheduler} |-> "idle"]
  /\ sample = [t \in Adders |-> NoSample]
  /\ pending = [t \in Adders |-> [b |-> ZOf(0), gen |-> 0]]
  /\ ret = [a |-> DOne, b |-> ZOf(0), stamp_a |-> 0, stamp_b |-> 0]
  /\ now = 0
  /\ conv = NoConversion
  /\ feed = f
  /\ fed = 0
  /\ reads = 0
  /\ probes = 0
  /\ clock = 0
  /\ sent = 0
  /\ lost = FALSE
  /\ gen = 0
  /\ stamp = [a |-> 0, b |-> 0]
  /\ admitted = <<>>
  /\ dropped = 0

InitFeed(f) == InitWith(f, InitialOffset)

(***************************************************************************)
(* std::lock_guard lock(mutex)                                             *)
(***************************************************************************)
CanLock_unlocked(t) == TRUE

CanLock(t) == mutex = NoThread

Unlock(t) == IF mutex = t THEN NoThread ELSE mutex

(***************************************************************************)
(* add_sample                                                              *)
(***************************************************************************)
\* line 44: samples.size() < num_samples
HasRoom_inclusive(ss) == Len(ss) <= num_samples

HasRoom(ss) == Len(ss) < num_samples

\* line 63: (sample_index + 1) % num_samples
NextIndex_stuck(i) == i

NextIndex_skipping(i) == (i + 2) % num_samples

NextIndex(i) == (i + 1) % num_samples

\* lines 41-42: the reply and the time of its arrival make the sample
add_sample_enter(t) ==
  /\ pc[t] = "idle"
  /\ fed < ScriptLen(feed) + FreeLen(feed)
  /\ fed < ScriptLen(feed) => t = "rx1" /\ \A u \in Adders : pc[u] = "idle"
  /\ \E s \in Replies(feed, fed) : sample' = [sample EXCEPT ![t] = s]
  /\ fed' = fed + 1
  /\ pc' = [pc EXCEPT ![t] = "lock"]
  /\ UNCHANGED <<estimator, sample_interval, mutex, pending, callers,
                 scheduling, history>>

\* line 43
add_sample_lock(t) ==
  /\ pc[t] = "lock"
  /\ CanLock(t)
  /\ mutex' = t
  /\ pc' = [pc EXCEPT ![t] = "admit"]
  /\ UNCHANGED <<estimator, sample_interval, sample, pending, callers, fed,
                 scheduling, history>>

\* add_sample_push_back with the lock held for line 46 only
add_sample_push_back_unlocks(t) ==
  /\ pc[t] = "admit"
  /\ HasRoom(samples)
  /\ samples' = Append(samples, sample[t])
  /\ admitted' = Append(admitted, sample[t])
  /\ mutex' = Unlock(t)
  /\ pc' = [pc EXCEPT ![t] = "regress"]
  /\ UNCHANGED <<sample_index, offset, sample_interval, sample, pending,
                 callers, fed, scheduling, gen, stamp, dropped>>

\* lines 44-47: the window is not full
add_sample_push_back(t) ==
  /\ pc[t] = "admit"
  /\ HasRoom(samples)
  /\ samples' = Append(samples, sample[t])
  /\ admitted' = Append(admitted, sample[t])
  /\ pc' = [pc EXCEPT ![t] = "regress"]
  /\ UNCHANGED <<sample_index, offset, sample_interval, mutex, sample, pending,
                 callers, fed, scheduling, gen, stamp, dropped>>

\* add_sample_drop with line 50 moved after the latency test
add_sample_drop_keeps_interval(t) ==
  /\ pc[t] = "admit"
  /\ ~HasRoom(samples)
  /\ TooHighLatency(sample[t], samples)
  /\ sample_interval' = sample_interval
  /\ dropped' = dropped + 1
  /\ mutex' = Unlock(t)
  /\ pc' = [pc EXCEPT ![t] = "idle"]
  /\ UNCHANGED <<estimator, sample, pending, callers, fed, scheduling, gen,
                 stamp, admitted>>

\* add_sample_drop returning with the mutex still locked
add_sample_drop_keeps_lock(t) ==
  /\ pc[t] = "admit"
  /\ ~HasRoom(samples)
  /\ TooHighLatency(sample[t], samples)
  /\ sample_interval' = OneSecond
  /\ dropped' = dropped + 1
  /\ pc' = [pc EXCEPT ![t] = "idle"]
  /\ UNCHANGED <<estimator, mutex, sample, pending, callers, fed, scheduling,
                 gen, stamp, admitted>>

\* lines 48-60: the window is full and the round trip is too long
add_sample_drop(t) ==
  /\ pc[t] = "admit"
  /\ ~HasRoom(samples)
  /\ TooHighLatency(sample[t], samples)
  /\ sample_interval' = OneSecond
  /\ dropped' = dropped + 1
  /\ mutex' = Unlock(t)
  /\ pc' = [pc EXCEPT ![t] = "idle"]
  /\ UNCHANGED <<estimator, sample, pending, callers, fed, scheduling, gen,
                 stamp, admitted>>

\* lines 48-64: the window is full and the sample replaces the one at
\* sample_index
add_sample_replace(t) ==
  /\ pc[t] = "admit"
  /\ ~HasRoom(samples)
  /\ ~TooHighLatency(sample[t], samples)
  /\ sample_interval' = OneSecond
  /\ samples' = [samples EXCEPT ![sample_index + 1] = sample[t]]
  /\ sample_index' = NextIndex(sample_index)
  /\ admitted' = Append(admitted, sample[t])
  /\ pc' = [pc EXCEPT ![t] = "regress"]
  /\ UNCHANGED <<offset, mutex, sample, pending, callers, fed, scheduling,
                 gen, stamp, dropped>>

\* lines 71-85 and 90-118: the model of the window; offset.a is stored
add_sample_store_a(t) ==
  /\ pc[t] = "regress"
  /\ \E r \in Recompute(samples) :
       /\ offset' = [offset EXCEPT !.a = r.a]
       /\ pending' = [pending EXCEPT ![t] = [b |-> r.b, gen |-> gen + 1]]
  /\ gen' = gen + 1
  /\ stamp' = [stamp EXCEPT !.a = gen + 1]
  /\ pc' = [pc EXCEPT ![t] = "store_b"]
  /\ UNCHANGED <<samples, sample_index, sample_interval, mutex, sample,
                 callers, fed, scheduling, admitted, dropped>>

\* lines 86-87 and 119-121: offset.b is stored, the call returns
add_sample_store_b(t) ==
  /\ pc[t] = "store_b"
  /\ offset' = [offset EXCEPT !.b = pending[t].b]
  /\ stamp' = [stamp EXCEPT !.b = pending[t].gen]
  /\ mutex' = Unlock(t)
  /\ pc' = [pc EXCEPT ![t] = "idle"]
  /\ UNCHANGED <<samples, sample_index, sample_interval, sample, pending,
                 callers, fed, scheduling, gen, admitted, dropped>>

(***************************************************************************)
(* get_offset                                                              *)
(***************************************************************************)
get_offset_enter ==
  /\ pc[Reader] = "idle"
  /\ fed >= ScriptLen(feed)
  /\ reads < MaxReads
  /\ pc' = [pc EXCEPT ![Reader] = "lock"]
  /\ UNCHANGED <<estimator, sample_interval, mutex, sample, pending, callers,
                 fed, scheduling, history>>

\* line 125
get_offset_lock ==
  /\ pc[Reader] = "lock"
  /\ CanLock(Reader)
  /\ mutex' = Reader
  /\ pc' = [pc EXCEPT ![Reader] = "copy_a"]
  /\ UNCHANGED <<estimator, sample_interval, sample, pending, callers, fed,
                 scheduling, history>>

\* line 126: the copy of offset, one member after the other
get_offset_copy_a ==
  /\ pc[Reader] = "copy_a"
  /\ ret' = [ret EXCEPT !.a = offset.a, !.stamp_a = stamp.a]
  /\ pc' = [pc EXCEPT ![Reader] = "copy_b"]
  /\ UNCHANGED <<estimator, sample_interval, mutex, sample, pending, conv,
                 feed, reads, fed, scheduling, history>>

\* lines 126-127
get_offset_copy_b ==
  /\ pc[Reader] = "copy_b"
  /\ ret' = [ret EXCEPT !.b = offset.b, !.stamp_b = stamp.b]
  /\ mutex' = Unlock(Reader)
  /\ reads' = reads + 1
  /\ pc' = [pc EXCEPT ![Reader] = "idle"]
  /\ UNCHANGED <<estimator, sample_interval, sample, pending, conv, feed, fed,
                 scheduling, history>>

(***************************************************************************)
(* The conversions of a consumer that holds the current model              *)
(***************************************************************************)
Quiescent == \A t \in Adders \cup {Reader} : pc[t] = "idle"

\* lines 139-147
to_headset_call ==
  /\ Quiescent
  /\ fed >= ScriptLen(feed)
  /\ \E ts \in Stamps(feed) : \E r \in to_headset(offset, ts) :
       conv' = [op |-> "to_headset", arg |-> ts, res |-> r]
  /\ UNCHANGED <<estimator, sample_interval, mutex, pc, sample, pending, ret,
                 feed, reads, fed, scheduling, history>>

\* lines 129-137
from_headset_call ==
  /\ Quiescent
  /\ fed >= ScriptLen(feed)
  /\ \E ts \in Stamps(feed) : \E r \in from_headset(offset, ts) :
       conv' = [op |-> "from_headset", arg |-> ts, res |-> r]
  /\ UNCHANGED <<estimator, sample_interval, mutex, pc, sample, pending, ret,
                 feed, reads, fed, scheduling, history>>

\* lines 129-137, called with the result of to_headset
from_headset_of_result ==
  /\ Quiescent
  /\ conv.op = "to_headset"
  /\ \E r \in from_headset(offset, ToUint64(conv.res)) :
       conv' = [op |-> "round_trip", arg |-> conv.arg, mid |-> conv.res, res |-> r]
  /\ UNCHANGED <<estimator, sample_interval, mutex, pc, sample, pending, ret,
                 feed, reads, fed, scheduling, history>>

(***************************************************************************)
(* request_sample, called by the scheduling thread                         *)
(***************************************************************************)
Due_always(time, deadline) == TRUE

\* line 30: steady_clock::now() < next_sample is false
Due(time, deadline) == ~(time < deadline)

\* line 33: steady_clock::now() + sample_interval.load()
Deadline(time, interval) == time + interval

\* lines 30-31: too early, the call returns
request_sample_skip ==
  /\ pc[Scheduler] = "idle"
  /\ fed >= ScriptLen(feed)
  /\ probes < MaxProbes
  /\ ~Due(clock, next_sample)
  /\ probes' = probes + 1
  /\ UNCHANGED <<estimator, sample_interval, next_sample, mutex, pc, sample,
                 pending, callers, fed, now, clock, sent, lost, history>>

\* line 30: the deadline is reached
request_sample_due ==
  /\ pc[Scheduler] = "idle"
  /\ fed >= ScriptLen(feed)
  /\ probes < MaxProbes
  /\ Due(clock, next_sample)
  /\ probes' = probes + 1
  /\ pc' = [pc EXCEPT ![Scheduler] = "arm"]
  /\ UNCHANGED <<estimator, sample_interval, next_sample, mutex, sample,
                 pending, callers, fed, now, clock, sent, lost, history>>

\* line 33
request_sample_arm_locked ==
  /\ pc[Scheduler] = "arm"
  /\ mutex = NoThread
  /\ now' = clock
  /\ next_sample' = Deadline(clock, sample_interval)
  /\ pc' = [pc EXCEPT ![Scheduler] = "send"]
  /\ UNCHANGED <<estimator, sample_interval, mutex, sample, pending, callers,
                 fed, probes, clock, sent, lost, history>>

request_sample_arm_widens ==
  /\ pc[Scheduler] = "arm"
  /\ now' = clock
  /\ next_sample' = Deadline(clock, sample_interval)
  /\ sample_interval' = OneSecond
  /\ pc' = [pc EXCEPT ![Scheduler] = "send"]
  /\ UNCHANGED <<estimator, mutex, sample, pending, callers,
                 fed, probes, clock, sent, lost, history>>

request_sample_arm ==
  /\ pc[Scheduler] = "arm"
  /\ now' = clock
  /\ next_sample' = Deadline(clock, sample_interval)
  /\ pc' = [pc EXCEPT ![Scheduler] = "send"]
  /\ UNCHANGED <<estimator, sample_interval, mutex, sample, pending, callers,
                 fed, probes, clock, sent, lost, history>>

\* lines 34-36: the query is handed to the connection, which sends it or
\* throws
request_sample_send ==
  /\ pc[Scheduler] = "send"
  /\ sent' = sent + 1
  /\ lost' \in BOOLEAN
  /\ pc' = [pc EXCEPT ![Scheduler] = "idle"]
  /\ UNCHANGED <<estimator, sample_interval, next_sample, mutex, sample,
                 pending, callers, fed, now, probes, clock, history>>

\* the steady clock advances
Tick ==
  /\ fed >= ScriptLen(feed)
  /\ Ticks(clock) < MaxTicks
  /\ \E d \in TickSteps : clock' = clock + d
  /\ UNCHANGED <<estimator, sample_interval, next_sample, mutex, pc, sample,
                 pending, callers, fed, now, probes, sent, lost, history>>

(***************************************************************************)
(* Spec: the network threads and a reader, concurrently                    *)
(***************************************************************************)
Init == \E f \in {"cold", "warm"} : InitFeed(f)

Next ==
  \/ \E t \in Adders :
       \/ add_sample_enter(t)
       \/ add_sample_lock(t)
       \/ add_sample_push_back(t)
       \/ add_sample_drop(t)
       \/ add_sample_replace(t)
       \/ add_sample_store_a(t)
       \/ add_sample_store_b(t)
  \/ get_offset_enter
  \/ get_offset_lock
  \/ get_offset_copy_a
  \/ get_offset_copy_b

Spec == Init /\ [][Next]_vars

(***************************************************************************)
(* FairSpec: Spec with a fair mutex (a thread that keeps asking for it     *)
(* gets it) and threads that keep running while they hold it               *)
(***************************************************************************)
\* a thread inside add_sample with the mutex locked takes its next step: the
\* one of add_sample_push_back, add_sample_drop, add_sample_replace,
\* add_sample_store_a and add_sample_store_b that its position enables
Proceeds(t) ==
  /\ pc[t] \in {"admit", "regress", "store_b"}
  /\ \E p \in {"regress", "store_b", "idle"} : pc' = [pc EXCEPT ![t] = p]

ThreadFairness ==
  /\ \A t \in Adders : SF_vars(add_sample_lock(t)) /\ WF_pc(Proceeds(t))
  /\ SF_vars(get_offset_lock)
  /\ WF_vars(get_offset_copy_a \/ get_offset_copy_b)

FairSpec == Init /\ [][Next]_vars /\ ThreadFairness

(***************************************************************************)
(* SeqSpec: one network thread, whose calls follow one another, and the    *)
(* conversions made with the model between two calls                       *)
(***************************************************************************)
SeqFeeds == {"cold", "ramp", "flat", "early", "scatter", "uneven", "wrap"}

InitSeq == \E f \in SeqFeeds : InitFeed(f)

NextSeq ==
  \/ add_sample_enter("rx1")
  \/ add_sample_lock("rx1")
  \/ add_sample_push_back("rx1")
  \/ add_sample_drop("rx1")
  \/ add_sample_replace("rx1")
  \/ add_sample_store_a("rx1")
  \/ add_sample_store_b("rx1")
  \/ to_headset_call
  \/ from_headset_call

SeqSpec == InitSeq /\ [][NextSeq]_vars

(***************************************************************************)
(* SchedSpec: the scheduling thread, the clock and one network thread      *)
(***************************************************************************)
InitSched == InitFeed("full")

NextSched ==
  \/ request_sample_skip
  \/ request_sample_due
  \/ request_sample_arm
  \/ request_sample_send
  \/ Tick
  \/ add_sample_enter("rx1")
  \/ add_sample_lock("rx1")
  \/ add_sample_push_back("rx1")
  \/ add_sample_drop("rx1")
  \/ add_sample_replace("rx1")
  \/ add_sample_store_a("rx1")
  \/ add_sample_store_b("rx1")

SchedSpec == InitSched /\ [][NextSched]_vars

(***************************************************************************)
(* LiveSpec: SchedSpec where request_sample keeps being called, a call     *)
(* that passed the test of line 30 runs to its end, and the clock keeps    *)
(* advancing; nothing is assumed of the network thread                     *)
(***************************************************************************)
SchedFairness ==
  /\ WF_vars(request_sample_skip \/ request_sample_due)
  /\ WF_vars(request_sample_arm \/ request_sample_send)
  /\ WF_vars(Tick)

LiveSpec == InitSched /\ [][NextSched]_vars /\ SchedFairness

(***************************************************************************)
(* ConvSpec: a consumer converting the timestamps of the operating range   *)
(* with a model it holds                                                   *)
(***************************************************************************)
InitConv == \E o \in Models : InitWith("conv", o)

NextConv ==
  \/ to_headset_call
  \/ from_headset_call
  \/ from_headset_of_result

ConvSpec == InitConv /\ [][NextConv]_vars

(***************************************************************************)
(* Exact arithmetic on the window, for the properties                      *)
(***************************************************************************)
ZAbs(x) == ZMake(FALSE, x.mag)

\* the sum of F(s) over the samples ss[lo..hi], as an exact integer
RECURSIVE ZSum(_, _, _, _)
ZSum(F(_), ss, lo, hi) ==
  IF lo > hi THEN ZOf(0)
  ELSE IF lo = hi THEN ZOf(F(ss[lo]))
  ELSE ZAdd(ZSum(F, ss, lo, (lo + hi) \div 2), ZSum(F, ss, (lo + hi) \div 2 + 1, hi))

TwiceMidpoint(s) == s.query + s.received
TwiceResponse(s) == 2 * s.response

\* 2 * k * (mean(response) - mean(midpoint)) for the k samples of ss
TwiceSumDifference(ss) ==
  ZSub(ZSum(TwiceResponse, ss, 1, Len(ss)), ZSum(TwiceMidpoint, ss, 1, Len(ss)))

AddersIdle == \A t \in Adders : pc[t] = "idle"

\* the window that the admissions made so far leave behind, the i-th
\* admission going to slot (i - 1) % num_samples
LastInSlot(j, n) == n - ((n - j) % num_samples)
RingOf(adm) ==
  IF Len(adm) <= num_samples THEN adm
  ELSE [j \in 1..num_samples |-> adm[LastInSlot(j, Len(adm))]]

(***************************************************************************)
(* C1: the number of stored samples never exceeds num_samples and never    *)
(* decreases; the admission of a call adds one sample while the window     *)
(* holds fewer than num_samples, and a window of num_samples samples keeps *)
(* that size.                                                              *)
(***************************************************************************)
C1_WindowSize ==
  [][/\ Len(samples') <= num_samples
     /\ Len(samples') >= Len(samples)
     /\ Len(samples') <= Len(samples) + 1
     /\ \A t \in Adders :
          pc[t] = "admit" /\ pc'[t] # "admit" /\ Len(samples) < num_samples
            => Len(samples') = Len(samples) + 1
     /\ Len(samples) = num_samples => Len(samples') = num_samples]_vars

\* the window is full and a further call has found it so
C1_FullWindowSeen ==
  /\ Len(samples) = num_samples
  /\ Len(admitted) + dropped > num_samples
  /\ AddersIdle

(***************************************************************************)
(* C2: when the window is full and the sample of a call has a round trip   *)
(* longer than 3 times the mean round trip of the stored samples, the call *)
(* returns with the stored samples, the write cursor and the model as they *)
(* were.                                                                   *)
(***************************************************************************)
\* num * RoundTrip(s) > 3 * (sum of the round trips of ss), num = Len(ss)
ExceedsThreeMeans(s, ss) ==
  ZLess(ZMul(ZOf(3), ZSum(RoundTrip, ss, 1, Len(ss))),
        ZMul(ZOf(Len(ss)), ZOf(RoundTrip(s))))

C2_OutlierLeavesState ==
  [][\A t \in Adders :
       /\ pc[t] = "admit"
       /\ pc'[t] # "admit"
       /\ Len(samples) = num_samples
       /\ ExceedsThreeMeans(sample[t], samples)
       => pc'[t] = "idle" /\ UNCHANGED estimator]_vars

(***************************************************************************)
(* C3: the pair get_offset returns has its a and its b from the same       *)
(* recomputation, or both from the construction.                           *)
(***************************************************************************)
C3_NoTornRead == pc[Reader] = "idle" => ret.stamp_a = ret.stamp_b

\* a read that returned the model of the first recomputation, a second
\* recomputation having begun since
C3_ReadBetweenUpdates ==
  /\ pc[Reader] = "idle"
  /\ reads = 1
  /\ ret.stamp_a = 1
  /\ ret.stamp_b = 1
  /\ gen = 2

(***************************************************************************)
(* C4, as stated: after a call that leaves k < num_samples samples, a is 1 *)
(* and b is exactly mean(response) - mean(midpoint).                       *)
(***************************************************************************)
Bootstrapped == AddersIdle /\ 1 <= Len(samples) /\ Len(samples) < num_samples

C4_ExactMeanDifference ==
  Bootstrapped =>
    /\ offset.a = DOne
    /\ ZMul(ZOf(2 * Len(samples)), offset.b) = TwiceSumDifference(samples)

(***************************************************************************)
(* C4, amended: after a call that leaves k < num_samples samples, a is 1   *)
(* and b is a whole number within 1 of mean(response) - mean(midpoint).    *)
(***************************************************************************)
C4_TruncatedMeanDifference ==
  Bootstrapped =>
    /\ offset.a = DOne
    /\ ZLeq(ZAbs(ZSub(ZMul(ZOf(2 * Len(samples)), offset.b),
                      TwiceSumDifference(samples))),
            ZOf(2 * Len(samples)))

\* a window whose mean difference is no whole number
C4_FractionalDifference ==
  /\ Bootstrapped
  /\ ZMul(ZOf(2 * Len(samples)), offset.b) # TwiceSumDifference(samples)

(***************************************************************************)
(* C5, as stated: sample_interval is one second in every state in which    *)
(* the window holds num_samples samples.                                   *)
(***************************************************************************)
C5_OneSecondWhenFull ==
  /\ Len(samples) < num_samples => sample_interval = InitialInterval
  /\ Len(samples) = num_samples => sample_interval = OneSecond

(***************************************************************************)
(* C5, amended: sample_interval has its initial value until the first call *)
(* that finds the window already full, and is one second from then on.     *)
(***************************************************************************)
FoundFull == Len(admitted) + dropped - num_samples

C5_OneSecondAfterFullCall ==
  sample_interval = IF FoundFull > 0 THEN OneSecond ELSE InitialInterval

\* the first call that finds the window full drops its sample
C5_WidenedByDrop ==
  /\ AddersIdle
  /\ dropped = 1
  /\ Len(admitted) = num_samples
  /\ sample_interval = OneSecond

(***************************************************************************)
(* C6: a call of request_sample before the deadline sends nothing and      *)
(* changes nothing; a call at or after the deadline sets next_sample to    *)
(* the time of line 33 plus sample_interval and then hands exactly one     *)
(* query to the connection, whether that send succeeds or not.             *)
(***************************************************************************)
C6_RequestSample ==
  [][/\ probes' # probes /\ clock < next_sample
          => UNCHANGED <<estimator, sample_interval, next_sample, pc, sent, lost>>
     /\ probes' # probes /\ clock >= next_sample => pc'[Scheduler] = "arm"
     /\ next_sample' # next_sample
          => /\ pc[Scheduler] = "arm"
             /\ pc'[Scheduler] = "send"
             /\ next_sample' = clock + sample_interval
     /\ pc[Scheduler] = "arm" /\ pc'[Scheduler] # "arm"
          => next_sample' = clock + sample_interval /\ sent' = sent
     /\ pc[Scheduler] = "send" /\ pc'[Scheduler] # "send"
          => /\ sent' = sent + 1
             /\ next_sample' = next_sample
             /\ next_sample = now + sample_interval \/ next_sample = now + InitialInterval
             /\ pc'[Scheduler] = "idle"
     /\ sent' # sent => pc[Scheduler] = "send"]_vars

\* a query was lost, and the next call came before the new deadline
C6_LostQueryNotRetried ==
  /\ pc[Scheduler] = "idle"
  /\ lost
  /\ sent = 1
  /\ probes = 2
  /\ clock < next_sample

(***************************************************************************)
(* C7: when no add_sample call is under way, the calls made so far, from   *)
(* whichever threads, have had the effect of calls made one after the      *)
(* other: every call has admitted or dropped its sample, the window holds  *)
(* the admitted samples, each in the slot the round-robin gives it, the    *)
(* cursor is where as many admissions leave it, and the model is the one   *)
(* of the window.                                                          *)
(***************************************************************************)
C7_Serial ==
  AddersIdle =>
    /\ Len(admitted) + dropped = fed
    /\ Len(samples) = Min(Len(admitted), num_samples)
    /\ samples = RingOf(admitted)
    /\ sample_index = Max(Len(admitted) - num_samples, 0) % num_samples
    /\ Len(admitted) > 0 => offset \in Recompute(samples)

\* two threads have delivered replies and an admission has evicted a sample
C7_BothThreadsAdmitted ==
  /\ AddersIdle
  /\ \A t \in Adders : sample[t] # NoSample
  /\ Len(admitted) = num_samples + 1

(***************************************************************************)
(* C8, as stated: after the 100 samples of the ramp, a is 1 and b is       *)
(* 500000 to within a nanosecond, and to_headset of the query of sample 50 *)
(* is the response of sample 50 to within a nanosecond.                    *)
(***************************************************************************)
RampAdmitted == feed = "ramp" /\ fed = num_samples /\ AddersIdle

ConvertedQuery50 == conv.op = "to_headset" /\ conv.arg = BOfNat(Ramp(50).query)

C8_RampOffsetIsResponseGap ==
  RampAdmitted =>
    /\ offset.a = DOne
    /\ ZLeq(ZAbs(ZSub(offset.b, ZOf(500000))), ZOf(1))
    /\ ConvertedQuery50
         => ZLeq(ZAbs(ZSub(conv.res, ZOf(Ramp(50).response))), ZOf(1))

(***************************************************************************)
(* C8, amended: after the 100 samples of the ramp, a is 1 and b is 495000, *)
(* the response less the midpoint of a sample, and to_headset of the query *)
(* of sample 50 is 5000 less than the response of sample 50.               *)
(***************************************************************************)
C8_RampOffsetIsMidpointGap ==
  RampAdmitted =>
    /\ offset.a = DOne
    /\ offset.b = ZOf(495000)
    /\ ConvertedQuery50 => conv.res = ZOf(Ramp(50).response - 5000)

C8_RampConverted == RampAdmitted /\ ConvertedQuery50

(***************************************************************************)
(* C9, as stated: when the num_samples samples of the window all lie on    *)
(* response = A * midpoint + B, with A and B whole numbers, and their      *)
(* midpoints differ, the model has a within 2^-40 of A and b = B.          *)
(***************************************************************************)
Lines == {<<1, 495000>>, <<7, -464293>>}

\* 2 * response = A * (query + received) + 2 * B
OnLine(s, A, B) == 2 * s.response = A * (s.query + s.received) + 2 * B

MidpointsDiffer(ss) == \E i, j \in 1..Len(ss) : TwiceMidpoint(ss[i]) # TwiceMidpoint(ss[j])

Fitted(A, B) ==
  /\ AddersIdle
  /\ Len(samples) = num_samples
  /\ \A i \in 1..Len(samples) : OnLine(samples[i], A, B)
  /\ MidpointsDiffer(samples)

\* |x| < 2^n for a double x
Below(x, n) == x.k = "fin" /\ (DIsZero(x) \/ BBitLen(x.m) + x.e <= n)

C9_ExactLine ==
  \A l \in Lines :
    Fitted(l[1], l[2]) =>
      /\ Below(DSub(offset.a, DOf(l[1])), -40)
      /\ offset.b = ZOf(l[2])

(***************************************************************************)
(* C9, amended: when the num_samples samples of the window all lie on      *)
(* response = A * midpoint + B, with A and B whole numbers, and their      *)
(* midpoints differ, the model has a within 2^-40 of A and b within 1 of   *)
(* B.                                                                      *)
(***************************************************************************)
C9_LineWithinOne ==
  \A l \in Lines :
    Fitted(l[1], l[2]) =>
      /\ Below(DSub(offset.a, DOf(l[1])), -40)
      /\ ZLeq(ZAbs(ZSub(offset.b, ZOf(l[2]))), ZOf(1))

\* the scattered line is fitted with a slope that is not exactly 7
C9_ScatterFitted == Fitted(7, -464293) /\ offset.a # DOf(7)

(***************************************************************************)
(* C10: while the window is full and all its samples have the same         *)
(* midpoint, no step replaces the model: the one in use stays.             *)
(***************************************************************************)
C10_DegenerateKeepsModel ==
  [][Len(samples) = num_samples /\ ~MidpointsDiffer(samples)
       => offset' = offset]_vars

(***************************************************************************)
(* Exact comparisons with the slope of the model, a finite double          *)
(* m * 2^e: n * a and n, both scaled by the same power of two              *)
(***************************************************************************)
SlopeTimes(n) == BShl(BMul(n, offset.a.m), Max(offset.a.e, 0))
Whole(n) == BShl(n, Max(-offset.a.e, 0))
PositiveSlope == offset.a.k = "fin" /\ offset.a.s = 1 /\ offset.a.m # <<>>
SlopeAtLeastOne == PositiveSlope /\ BCmp(SlopeTimes(<<1>>), Whole(<<1>>)) >= 0

\* how far from_headset(to_headset(t)) lies from t, in nanoseconds
RoundTripError == ZSub(conv.res, ZMake(FALSE, conv.arg)).mag
RoundTripMade == conv.op = "round_trip" /\ PositiveSlope

(***************************************************************************)
(* C11, as stated: for every model with a > 0 and every timestamp t of the *)
(* operating range, from_headset(to_headset(t)) lies within the rounding   *)
(* error of the two integer conversions of t, 2 nanoseconds, and equals t  *)
(* when a = 1.                                                             *)
(***************************************************************************)
C11_RoundTripWithinTwo ==
  RoundTripMade =>
    /\ BCmp(RoundTripError, <<2>>) <= 0
    /\ offset.a = DOne => conv.res = ZMake(FALSE, conv.arg)

(***************************************************************************)
(* C11, amended: from_headset(to_headset(t)) lies within 1 + 1/a           *)
(* nanoseconds of t, which is within 1 nanosecond when a >= 1, and equals  *)
(* t when a = 1.                                                           *)
(***************************************************************************)
C11_RoundTripWithinInverseSlope ==
  RoundTripMade =>
    /\ BCmp(SlopeTimes(RoundTripError), BAdd(Whole(<<1>>), SlopeTimes(<<1>>))) <= 0
    /\ SlopeAtLeastOne => BCmp(RoundTripError, <<1>>) <= 0
    /\ offset.a = DOne => conv.res = ZMake(FALSE, conv.arg)

C11_RoundTripFarOff == RoundTripMade /\ BCmp(RoundTripError, <<2>>) > 0

(***************************************************************************)
(* The conversion whose result the consumer holds: to_headset of conv.arg, *)
(* or from_headset of the headset time FromHeadsetArg                      *)
(***************************************************************************)
ToHeadsetMade == conv.op = "to_headset" /\ PositiveSlope
FromHeadsetMade == conv.op \in {"from_headset", "round_trip"} /\ PositiveSlope
FromHeadsetArg == IF conv.op = "round_trip" THEN conv.mid ELSE FromUint64(conv.arg)

\* a * t without its offset, and d - b, as to_headset and from_headset use them
Unshifted == ZSub(conv.res, offset.b)
Shifted == ZSub(FromHeadsetArg, offset.b)

\* x with the rounding error of one operation on doubles added or taken off
SlackUp(x) == BAdd(x, BShr(x, MantBits - 1))
SlackDown(x) == BSub(x, BShr(x, MantBits - 1))
Twice(x) == BAdd(x, x)

\* k <= x < k + 1 and k - 1/2 <= x <= k + 1/2, for scaled magnitudes
Truncates(k, one, x) ==
  /\ BCmp(k, SlackUp(x)) <= 0
  /\ BCmp(SlackDown(x), BAdd(k, one)) < 0
Rounds(k, one, x) ==
  /\ BCmp(Twice(k), BAdd(SlackUp(Twice(x)), one)) <= 0
  /\ BCmp(SlackDown(Twice(x)), BAdd(Twice(k), one)) <= 0

(***************************************************************************)
(* C18, as stated: to_headset(t) is b plus a * t rounded to the nearest    *)
(* whole number, and from_headset(d) is (d - b) / a rounded to the nearest *)
(* whole number.                                                           *)
(***************************************************************************)
C18_RoundsToNearest ==
  /\ ToHeadsetMade =>
       Rounds(Whole(Unshifted.mag), Whole(<<1>>), SlopeTimes(conv.arg))
  /\ FromHeadsetMade =>
       Rounds(SlopeTimes(conv.res.mag), SlopeTimes(<<1>>), Whole(Shifted.mag))

(***************************************************************************)
(* C18, amended: to_headset(t) is b plus a * t with its fraction cut off,  *)
(* and from_headset(d) is (d - b) / a with its fraction cut off, towards   *)
(* zero, for a model with a > 0.                                           *)
(***************************************************************************)
C18_CutsFraction ==
  /\ ToHeadsetMade =>
       /\ ~Unshifted.neg
       /\ Truncates(Whole(Unshifted.mag), Whole(<<1>>), SlopeTimes(conv.arg))
  /\ FromHeadsetMade =>
       /\ conv.res.mag = <<>> \/ conv.res.neg = Shifted.neg
       /\ Truncates(SlopeTimes(conv.res.mag), SlopeTimes(<<1>>), Whole(Shifted.mag))

\* a to_headset that cut off more than half a nanosecond
C18_MoreThanHalfCut ==
  /\ ToHeadsetMade
  /\ ~Rounds(Whole(Unshifted.mag), Whole(<<1>>), SlopeTimes(conv.arg))

(***************************************************************************)
(* C12: whenever request_sample can be called with its deadline reached,   *)
(* whatever the estimator holds and whatever became of the earlier         *)
(* queries and replies, one more query is sent: a call made at or after    *)
(* the deadline always emits its probe.                                    *)
(***************************************************************************)
ProbeDue ==
  /\ pc[Scheduler] = "idle"
  /\ fed >= ScriptLen(feed)
  /\ probes < MaxProbes
  /\ Due(clock, next_sample)

C12_DueProbeIsSent == \A k \in 0..MaxProbes : (ProbeDue /\ sent = k) ~> (sent = k + 1)

\* a second query sent after the first was lost and a reply was rejected
C12_SentAfterLossAndReject == sent = 2 /\ dropped = 1 /\ sample_interval = OneSecond

(***************************************************************************)
(* C13, as stated: next_sample and sample_interval change only in a step   *)
(* of request_sample; no step of add_sample or get_offset changes either.  *)
(***************************************************************************)
C13_OnlyRequestSampleWrites ==
  [][(next_sample' # next_sample \/ sample_interval' # sample_interval)
       => pc'[Scheduler] # pc[Scheduler]]_vars

(***************************************************************************)
(* C13, amended: next_sample changes only in the step of request_sample    *)
(* that arms the next deadline, and sample_interval only in the step of    *)
(* add_sample that finds the window full; request_sample never changes     *)
(* sample_interval, and add_sample and get_offset never change             *)
(* next_sample.                                                            *)
(***************************************************************************)
C13_OneWriterEach ==
  [][/\ next_sample' # next_sample
          => pc[Scheduler] = "arm" /\ pc'[Scheduler] = "send"
     /\ sample_interval' # sample_interval
          => \E t \in Adders :
               pc[t] = "admit" /\ pc'[t] # "admit" /\ ~HasRoom(samples)]_vars

\* both fields have been written, each by its own thread
C13_BothWritten ==
  /\ sample_interval # InitialInterval
  /\ next_sample # 0
  /\ pc[Scheduler] = "idle"

(***************************************************************************)
(* C14: once num_samples samples have been admitted, the window read from  *)
(* the write cursor onwards, wrapping around, is the num_samples most      *)
(* recently admitted samples in the order of their admission: the cursor   *)
(* is on the sample admitted earliest, and a rejected sample moves         *)
(* nothing.                                                                *)
(***************************************************************************)
FromCursor(i) == samples[((sample_index + i - 1) % num_samples) + 1]

C14_NewestKept ==
  Len(admitted) >= num_samples =>
    /\ Len(samples) = num_samples
    /\ \A i \in 1..num_samples :
         FromCursor(i) = admitted[Len(admitted) - num_samples + i]

\* every slot has been overwritten, the cursor has wrapped around, and a
\* sample was rejected on the way
C14_WrappedAndRejected ==
  /\ Len(admitted) = 2 * num_samples
  /\ sample_index = 0
  /\ dropped = 1
  /\ AddersIdle

(***************************************************************************)
(* C15: when the window is full, a call drops its sample if and only if    *)
(* the round trip of the sample is longer than 3 times the mean round trip *)
(* of the stored samples; a round trip of exactly 3 times the mean, or     *)
(* less, is admitted.                                                      *)
(***************************************************************************)
C15_DropsIffAboveThreeMeans ==
  [][\A t \in Adders :
       /\ pc[t] = "admit"
       /\ pc'[t] # "admit"
       /\ Len(samples) = num_samples
       => (pc'[t] = "idle" <=> ExceedsThreeMeans(sample[t], samples))]_vars

(***************************************************************************)
(* C16, as stated: on a full window sample_interval changes only in a call *)
(* whose sample passes the latency test; a call that drops its sample      *)
(* leaves sample_interval as it was.                                       *)
(***************************************************************************)
C16_DropKeepsInterval ==
  [][\A t \in Adders :
       pc[t] = "admit" /\ pc'[t] = "idle" => sample_interval' = sample_interval]_vars

(***************************************************************************)
(* C16, amended: every call that finds the window full sets                *)
(* sample_interval to 1 second, whether it then drops its sample or stores *)
(* it; a call that finds room in the window leaves sample_interval as it   *)
(* was.                                                                    *)
(***************************************************************************)
C16_FullCallSetsInterval ==
  [][\A t \in Adders :
       pc[t] = "admit" /\ pc'[t] # "admit" =>
         sample_interval' = IF HasRoom(samples) THEN sample_interval ELSE OneSecond]_vars

\* the first call on a full window dropped its sample and widened the interval
C16_FirstFullCallDropped ==
  /\ dropped = 1
  /\ fed = num_samples + 1
  /\ Len(admitted) = num_samples
  /\ sample_interval = OneSecond
  /\ AddersIdle

(***************************************************************************)
(* C17: in every state where the mutex is free and a sample has been       *)
(* admitted, the model is the one the recomputation gives for the stored   *)
(* samples (the mean difference below num_samples samples, the regression  *)
(* at num_samples); and the stored samples and the model change only in a  *)
(* step of an add_sample call that holds the mutex.                        *)
(***************************************************************************)
C17_ModelOfStoredWindow ==
  /\ [](mutex = NoThread /\ Len(admitted) > 0 => offset \in Recompute(samples))
  /\ [][samples' # samples \/ offset' # offset
          => \E t \in Adders : mutex = t /\ pc'[t] # pc[t]]_vars

\* the mutex is free after a regression, while a thread and the reader are
\* about to lock it
C17_FreeAfterRegression ==
  /\ mutex = NoThread
  /\ Len(admitted) = num_samples
  /\ \E t \in Adders : pc[t] = "lock"
  /\ pc[Reader] = "lock"

(***************************************************************************)
(* C19: a call of add_sample or get_offset that has started returns, and   *)
(* the step in which it returns, on whichever of the paths of add_sample   *)
(* (sample dropped, mean difference stored, regression stored), leaves the *)
(* mutex free.                                                             *)
(***************************************************************************)
Threads == Adders \cup {Reader}

C19_CallsReturnUnlocked ==
  /\ \A t \in Threads : (pc[t] # "idle") ~> (pc[t] = "idle")
  /\ [][\A t \in Threads : pc[t] # "idle" /\ pc'[t] = "idle" => mutex' = NoThread]_vars

\* a call has returned on each of the three paths and the reader was served
C19_EveryPathReturned ==
  /\ dropped = 1
  /\ Len(admitted) = num_samples
  /\ reads = MaxReads
  /\ \A t \in Threads : pc[t] = "idle"

(***************************************************************************)
(* C20: a full window stays as it is while every sample that arrives has a *)
(* round trip longer than 3 times its mean round trip, so a sample that    *)
(* was admitted to a full window did not have a round trip longer than 3   *)
(* times the mean round trip of the window it found, whatever the sign of  *)
(* that mean.                                                              *)
(***************************************************************************)
WindowBefore(k) == RingOf(SubSeq(admitted, 1, k - 1))

C20_FrozenAboveThreeMeans ==
  \A k \in (num_samples + 1)..Len(admitted) :
    ~ExceedsThreeMeans(admitted[k], WindowBefore(k))
=============================================================================
